---- MODULE Spec2Model ----
(***************************************************************************)
(* A model of the benchmarking framework: the statistics engine            *)
(* (calculateStats, calculateEnhancedStats, detectOutliers), the           *)
(* single-run executor (runBenchmark), the adaptive calibration controller *)
(* (findIterationsForTargetDuration, runAdaptiveBenchmark), the isolated   *)
(* execution orchestrator (runIsolatedBenchmark), the comparator           *)
(* (compareBenchmarks, compareAdaptiveBenchmarks,                          *)
(* runMultipleAdaptiveBenchmarks), the stability calibration               *)
(* (findIterationsForStatisticalStability) and the monitored run           *)
(* (runMonitoredBenchmark).                                                *)
(*                                                                         *)
(* JavaScript numbers are modelled as extended rationals: a record         *)
(* [n, d] with d > 0 and gcd(n, d) = 1 is the finite number n/d, [1, 0]    *)
(* is Infinity, [-1, 0] is -Infinity and [0, 0] is NaN.  Arithmetic is     *)
(* exact, division by zero and comparisons with NaN behave as in IEEE 754. *)
(* A standard deviation is carried as its square (the variance), and a     *)
(* relative standard deviation as its square, so that every comparison the *)
(* code makes on them is decided exactly.  calculateStats is given a       *)
(* second time in rounded arithmetic (CalculateStatsRounded): binary       *)
(* floating point of MantissaBits significant bits, every operation        *)
(* rounded to nearest, ties to even.                                       *)
(***************************************************************************)
EXTENDS Integers, Sequences, FiniteSets, TLC

VARIABLES
    \* statistics engine
    values, statsPc, detected, redetected, stats, roundedStats, enhanced,
    \* host clock (performance.now)
    now,
    \* single-run executor
    rbOpts, rbPc, rbWarmupCalls, rbTimedCalls, rbStartTime, rbResult,
    \* adaptive calibration controller
    adOpts, adPc, iterations, initialIterations, currentStep, startTime,
    samples, adjustmentSteps, relativeStandardDeviation, adWarned, adResult,
    \* isolated execution orchestrator
    isoOpts, isoPc, tempFile, cleanupCalls, promise, settleCalls,
    results, completedCount, errorOccurred, ctx, ctxFailed, combinedResult,
    \* comparator
    cmpBenchmarks, cmpFunction, cmpForward, cmpBackward, cmpMany,
    \* stability calibration
    stabOpts, stabPc, stabIterations, stabSamples, stabReturned,
    \* monitored run
    monOpts, monPc, snapshots, monitoringInterval, monElapsed

statsVars == <<values, statsPc, detected, redetected, stats, roundedStats, enhanced>>
rbVars == <<rbOpts, rbPc, rbWarmupCalls, rbTimedCalls, rbStartTime, rbResult>>
adVars == <<adOpts, adPc, iterations, initialIterations, currentStep, startTime,
            samples, adjustmentSteps, relativeStandardDeviation, adWarned, adResult>>
isoVars == <<isoOpts, isoPc, tempFile, cleanupCalls, promise, settleCalls,
             results, completedCount, errorOccurred, ctx, ctxFailed, combinedResult>>
cmpVars == <<cmpBenchmarks, cmpFunction, cmpForward, cmpBackward, cmpMany>>
stabVars == <<stabOpts, stabPc, stabIterations, stabSamples, stabReturned>>
monVars == <<monOpts, monPc, snapshots, monitoringInterval, monElapsed>>
vars == <<statsVars, now, rbVars, adVars, isoVars, cmpVars, stabVars, monVars>>

-----------------------------------------------------------------------------
(* Bounds of the model *)

\* longest sample sequence handed to the statistics engine
MaxLen == 4
\* last reading of the clock; at the cap the clock stands still
MaxClock == 4
\* largest advance of the clock between two readings
MaxTick == 2
\* largest processCount option
MaxProc == 3
\* largest iterations / warmupRuns option of a single run
MaxRunIterations == 3
\* longest list of benchmarks handed to runMultipleAdaptiveBenchmarks
MaxBenchmarks == 3
\* bits of the significand of the rounded (floating-point) arithmetic; a
\* double has 53
MantissaBits == 3

-----------------------------------------------------------------------------
(* Numbers *)

RECURSIVE Gcd(_, _)
Gcd(a, b) == IF b = 0 THEN a ELSE Gcd(b, a % b)

AbsInt(x) == IF x < 0 THEN -x ELSE x

SignInt(x) == IF x > 0 THEN 1 ELSE IF x < 0 THEN -1 ELSE 0

\* the number n/d, d >= 0, in lowest terms
Norm(n, d) ==
    IF d = 0 THEN [n |-> SignInt(n), d |-> 0]
    ELSE LET g == Gcd(AbsInt(n), d) IN [n |-> n \div g, d |-> d \div g]

Num(i) == [n |-> i, d |-> 1]

Infinity == [n |-> 1, d |-> 0]

NaN == [n |-> 0, d |-> 0]

IsNaN(a) == a.n = 0 /\ a.d = 0

IsFinite(a) == a.d > 0

Add(a, b) ==
    IF a.d = 0 /\ b.d = 0 THEN (IF a.n = b.n THEN a ELSE NaN)
    ELSE IF a.d = 0 THEN a
    ELSE IF b.d = 0 THEN b
    ELSE LET g == Gcd(a.d, b.d)
         IN Norm(a.n * (b.d \div g) + b.n * (a.d \div g), (a.d \div g) * b.d)

Neg(a) == [n |-> -a.n, d |-> a.d]

Sub(a, b) == Add(a, Neg(b))

\* the factors common to a numerator and the other denominator are taken
\* out before the products are formed
Mul(a, b) ==
    IF a.d = 0 \/ b.d = 0 THEN Norm(a.n * b.n, a.d * b.d)
    ELSE LET g1 == Gcd(AbsInt(a.n), b.d)
             g2 == Gcd(AbsInt(b.n), a.d)
         IN [n |-> (a.n \div g1) * (b.n \div g2), d |-> (a.d \div g2) * (b.d \div g1)]

\* 1 / b
Reciprocal(b) == IF b.n < 0 THEN [n |-> -b.d, d |-> -b.n] ELSE [n |-> b.d, d |-> b.n]

Div(a, b) == Mul(a, Reciprocal(b))

Lt(a, b) ==
    /\ ~IsNaN(a)
    /\ ~IsNaN(b)
    /\ IF a.d = 0 /\ b.d = 0 THEN a.n < b.n ELSE a.n * b.d < b.n * a.d

Gt(a, b) == Lt(b, a)

Le(a, b) == ~IsNaN(a) /\ ~IsNaN(b) /\ ~Lt(b, a)

Ge(a, b) == Le(b, a)

\* Math.abs
Abs(a) == [n |-> AbsInt(a.n), d |-> a.d]

\* Math.floor
Floor(a) == IF a.d = 0 THEN a ELSE Num(a.n \div a.d)

\* Math.min and Math.max of two numbers (NaN is contagious)
MathMin(a, b) == IF IsNaN(a) \/ IsNaN(b) THEN NaN ELSE IF Lt(b, a) THEN b ELSE a

MathMax(a, b) == IF IsNaN(a) \/ IsNaN(b) THEN NaN ELSE IF Lt(a, b) THEN b ELSE a

RECURSIVE Pow2(_)
Pow2(k) == IF k = 0 THEN 1 ELSE 2 * Pow2(k - 1)

\* the positive number n/d rounded to MantissaBits significant bits, to
\* nearest and ties to even
RECURSIVE RoundMagnitude(_, _)
RoundMagnitude(n, d) ==
    IF n >= Pow2(MantissaBits) * d THEN Mul(Num(2), RoundMagnitude(n, 2 * d))
    ELSE IF n < Pow2(MantissaBits - 1) * d THEN Div(RoundMagnitude(2 * n, d), Num(2))
    ELSE LET m == n \div d
             r == n - m * d
         IN IF 2 * r > d \/ (2 * r = d /\ m % 2 = 1) THEN Num(m + 1) ELSE Num(m)

\* the floating-point number an arithmetic operation returns for the exact
\* result a (IEEE 754 round to nearest; the exponent range is not bounded)
RoundToFloat(a) ==
    IF a.d = 0 \/ a.n = 0 THEN a
    ELSE IF a.n > 0 THEN RoundMagnitude(a.n, a.d)
    ELSE Neg(RoundMagnitude(-a.n, a.d))

\* x || dflt on a numeric option: 0 (and an absent option) is falsy
OrDefault(x, dflt) == IF x = 0 THEN dflt ELSE x

-----------------------------------------------------------------------------
(* Sequences of numbers *)

RECURSIVE SumSeq(_)
SumSeq(s) == IF s = <<>> THEN Num(0) ELSE Add(SumSeq(SubSeq(s, 1, Len(s) - 1)), s[Len(s)])

RECURSIVE Insert(_, _)
Insert(x, s) ==
    IF s = <<>> THEN <<x>>
    ELSE IF Le(x, Head(s)) THEN <<x>> \o s
    ELSE <<Head(s)>> \o Insert(x, Tail(s))

\* [...s].sort((a, b) => a - b)
RECURSIVE SortAsc(_)
SortAsc(s) == IF s = <<>> THEN <<>> ELSE Insert(Head(s), SortAsc(Tail(s)))

RECURSIVE MinSeq(_)
MinSeq(s) == IF Len(s) = 1 THEN s[1] ELSE MathMin(s[1], MinSeq(Tail(s)))

RECURSIVE MaxSeq(_)
MaxSeq(s) == IF Len(s) = 1 THEN s[1] ELSE MathMax(s[1], MaxSeq(Tail(s)))

\* sorted[Math.floor(sorted.length / 2)], indices from 0
MiddleOf(sorted) == sorted[(Len(sorted) \div 2) + 1]

MapNum(s) == [i \in 1..Len(s) |-> Num(s[i])]

-----------------------------------------------------------------------------
(* Statistics engine *)

\* design constants of detectOutliers
NormalConstant == Norm(6745, 10000)

MILD_THRESHOLD == Norm(35, 10)

EXTREME_THRESHOLD == Num(5)

\* the mean as the code computes it: the sum divided by the length
MeanOf(vals) == Div(SumSeq(vals), Num(Len(vals)))

\* values.reduce((sum, val) => sum + Math.pow(val - mean, 2), 0) / values.length
VarianceOf(vals, mean) ==
    Div(SumSeq([i \in 1..Len(vals) |-> Mul(Sub(vals[i], mean), Sub(vals[i], mean))]),
        Num(Len(vals)))

\* calculateStats; standardDeviation is carried as its square, variance
CalculateStats(vals) ==
    IF Len(vals) = 0 THEN [threw |-> "Cannot calculate stats for empty array"]
    ELSE LET mean == MeanOf(vals)
         IN [threw |-> "",
             mean |-> mean,
             median |-> MiddleOf(SortAsc(vals)),
             min |-> MinSeq(vals),
             max |-> MaxSeq(vals),
             variance |-> VarianceOf(vals, mean)]

\* the median absolute deviation of detectOutliers
MedianAbsoluteDeviation(vals, median) ==
    MiddleOf(SortAsc([i \in 1..Len(vals) |-> Abs(Sub(vals[i], median))]))

\* mad === 0 ? 0 : Math.abs(0.6745 * (value - median) / mad)
ModifiedZScore(value, median, mad) ==
    IF mad = Num(0) THEN Num(0)
    ELSE Abs(Div(Mul(NormalConstant, Sub(value, median)), mad))

\* the three buckets of the forEach of detectOutliers, in input order
Classify(vals, median, mad) ==
    LET IsExtreme(v) == Gt(ModifiedZScore(v, median, mad), EXTREME_THRESHOLD)
        IsMild(v) == ~IsExtreme(v) /\ Gt(ModifiedZScore(v, median, mad), MILD_THRESHOLD)
        IsClean(v) == ~IsExtreme(v) /\ ~IsMild(v)
    IN [cleanValues |-> SelectSeq(vals, IsClean),
        mild |-> SelectSeq(vals, IsMild),
        extreme |-> SelectSeq(vals, IsExtreme)]

\* a detectOutliers that scores every value against a deviation of 1 (the
\* score is not scaled by the MAD) and never reverts to the original set
DetectOutliersUnscaledNoRevert(vals) ==
    Classify(vals, MiddleOf(SortAsc(vals)), Num(1))

\* a detectOutliers that does not keep the extreme values it takes out
DetectOutliersDropsExtreme(vals) ==
    LET median == MiddleOf(SortAsc(vals))
        mad == MedianAbsoluteDeviation(vals, median)
        buckets == Classify(vals, median, mad)
    IN IF 2 * Len(buckets.cleanValues) < Len(vals)
       THEN [cleanValues |-> vals, mild |-> <<>>, extreme |-> <<>>]
       ELSE [cleanValues |-> buckets.cleanValues, mild |-> buckets.mild, extreme |-> <<>>]

\* detectOutliers
DetectOutliers(vals) ==
    LET median == MiddleOf(SortAsc(vals))
        mad == MedianAbsoluteDeviation(vals, median)
        buckets == Classify(vals, median, mad)
    IN IF 2 * Len(buckets.cleanValues) < Len(vals)
       THEN [cleanValues |-> vals, mild |-> <<>>, extreme |-> <<>>]
       ELSE buckets

\* values.reduce((sum, val) => sum + val, 0) in floating point
RECURSIVE RoundedSumSeq(_)
RoundedSumSeq(s) ==
    IF s = <<>> THEN Num(0)
    ELSE RoundToFloat(Add(RoundedSumSeq(SubSeq(s, 1, Len(s) - 1)), s[Len(s)]))

\* calculateStats in floating point: every addition, subtraction,
\* multiplication and division returns the rounded result
CalculateStatsRounded(vals) ==
    IF Len(vals) = 0 THEN [threw |-> "Cannot calculate stats for empty array"]
    ELSE LET mean == RoundToFloat(Div(RoundedSumSeq(vals), Num(Len(vals))))
             Squared(v) == LET dev == RoundToFloat(Sub(v, mean))
                           IN RoundToFloat(Mul(dev, dev))
         IN [threw |-> "",
             mean |-> mean,
             median |-> MiddleOf(SortAsc(vals)),
             min |-> MinSeq(vals),
             max |-> MaxSeq(vals),
             variance |-> RoundToFloat(Div(RoundedSumSeq([i \in 1..Len(vals) |->
                                                            Squared(vals[i])]),
                                           Num(Len(vals))))]

\* calculateConfidenceInterval: the margin Z * (stdDev / Math.sqrt(n)),
\* squared; lower and upper are the mean minus and plus the margin
MarginOfErrorSquared(vals, variance) ==
    Mul(Mul(Norm(196, 100), Norm(196, 100)), Div(variance, Num(Len(vals))))

\* calculateSkewness, carried as skewness * stdDev (it is 0 exactly when
\* the skewness is, and has its sign): the cube of (val - mean) / stdDev is
\* (val - mean) * ((val - mean)^2 / variance) / stdDev
SkewnessTimesDeviation(vals, mean, variance) ==
    IF Len(vals) < 3 \/ variance = Num(0) THEN Num(0)
    ELSE LET n == Len(vals)
             Cubed(v) == Mul(Sub(v, mean), Div(Mul(Sub(v, mean), Sub(v, mean)), variance))
             sumCubedDeviations == SumSeq([i \in 1..n |-> Cubed(vals[i])])
             biasAdjustment == Norm(n, (n - 1) * (n - 2))
         IN Mul(biasAdjustment, sumCubedDeviations)

\* calculateKurtosis
Kurtosis(vals, mean, variance) ==
    IF Len(vals) < 4 \/ variance = Num(0) THEN Num(0)
    ELSE LET n == Len(vals)
             Fourth(v) == LET sq == Div(Mul(Sub(v, mean), Sub(v, mean)), variance)
                          IN Mul(sq, sq)
             sumFourth == SumSeq([i \in 1..n |-> Fourth(vals[i])])
             biasAdjustment == Norm(n * (n + 1), (n - 1) * (n - 2) * (n - 3))
             biasCorrection == Norm(3 * (n - 1) * (n - 1), (n - 2) * (n - 3))
         IN Sub(Mul(biasAdjustment, sumFourth), biasCorrection)

\* calculateEnhancedStats; standardDeviation is carried as variance, the
\* margin of error as its square and the skewness as its product with the
\* standard deviation
CalculateEnhancedStats(vals) ==
    IF Len(vals) = 0 THEN [threw |-> "Cannot calculate stats for empty array"]
    ELSE LET found == DetectOutliers(vals)
             cleanValues == found.cleanValues
             mean == MeanOf(cleanValues)
             variance == VarianceOf(cleanValues, mean)
         IN [threw |-> "",
             mean |-> mean,
             median |-> MiddleOf(SortAsc(cleanValues)),
             min |-> MinSeq(cleanValues),
             max |-> MaxSeq(cleanValues),
             variance |-> variance,
             marginOfErrorSquared |-> MarginOfErrorSquared(cleanValues, variance),
             outliers |-> [mild |-> found.mild, extreme |-> found.extreme],
             skewnessTimesDeviation |->
                 SkewnessTimesDeviation(cleanValues, mean, variance),
             kurtosis |-> Kurtosis(cleanValues, mean, variance)]

\* sample values of the statistics engine's inputs
SampleValues == {0, 1, 2, 8, 20}

\* the sample set with one extreme value
ScenarioInput == <<10, 10, 10, 10, 10, 100>>

\* a sample set whose clean subset still holds a value far from the rest
DispersedInput == <<0, 1, 8, 50>>

\* a constant sample set whose sum is not a floating-point number
RoundingInput == <<3, 3, 3>>

StatsInputs ==
    UNION {[1..n -> SampleValues] : n \in 1..MaxLen}
        \cup {ScenarioInput, DispersedInput, RoundingInput}

NoStats == [threw |-> "not run"]

NoBuckets == [cleanValues |-> <<>>, mild |-> <<>>, extreme |-> <<>>]

StatsIdle ==
    /\ values = <<>>
    /\ statsPc = "idle"
    /\ detected = NoBuckets
    /\ redetected = NoBuckets
    /\ stats = NoStats
    /\ roundedStats = NoStats
    /\ enhanced = NoStats

StatsInit ==
    /\ values \in StatsInputs
    /\ statsPc = "start"
    /\ detected = NoBuckets
    /\ redetected = NoBuckets
    /\ stats = NoStats
    /\ roundedStats = NoStats
    /\ enhanced = NoStats

\* a call of detectOutliers(values)
StatsDetectOutliers ==
    /\ statsPc = "start"
    /\ detected' = DetectOutliers(MapNum(values))
    /\ statsPc' = "detected"
    /\ UNCHANGED <<values, redetected, stats, roundedStats, enhanced>>
    /\ UNCHANGED <<now, rbVars, adVars, isoVars, cmpVars, stabVars, monVars>>

\* a call of calculateStats(values)
StatsCalculateStats ==
    /\ statsPc = "start"
    /\ stats' = CalculateStats(MapNum(values))
    /\ statsPc' = "calculated"
    /\ UNCHANGED <<values, detected, redetected, roundedStats, enhanced>>
    /\ UNCHANGED <<now, rbVars, adVars, isoVars, cmpVars, stabVars, monVars>>

\* a call of detectOutliers on the clean set of the call before
StatsDetectAgain ==
    /\ statsPc = "detected"
    /\ redetected' = DetectOutliers(detected.cleanValues)
    /\ statsPc' = "redetected"
    /\ UNCHANGED <<values, detected, stats, roundedStats, enhanced>>
    /\ UNCHANGED <<now, rbVars, adVars, isoVars, cmpVars, stabVars, monVars>>

\* a call of calculateStats(values) whose values are floating-point numbers
StatsCalculateStatsRounded ==
    /\ statsPc = "start"
    /\ \A i \in DOMAIN values : RoundToFloat(Num(values[i])) = Num(values[i])
    /\ roundedStats' = CalculateStatsRounded(MapNum(values))
    /\ statsPc' = "rounded"
    /\ UNCHANGED <<values, detected, redetected, stats, enhanced>>
    /\ UNCHANGED <<now, rbVars, adVars, isoVars, cmpVars, stabVars, monVars>>

\* a call of calculateEnhancedStats(values)
StatsCalculateEnhancedStats ==
    /\ statsPc = "start"
    /\ enhanced' = CalculateEnhancedStats(MapNum(values))
    /\ statsPc' = "enhanced"
    /\ UNCHANGED <<values, detected, redetected, stats, roundedStats>>
    /\ UNCHANGED <<now, rbVars, adVars, isoVars, cmpVars, stabVars, monVars>>

StatsNext ==
    \/ StatsDetectOutliers
    \/ StatsDetectAgain
    \/ StatsCalculateStats
    \/ StatsCalculateStatsRounded
    \/ StatsCalculateEnhancedStats

-----------------------------------------------------------------------------
(* Host clock *)

\* the values a reading of performance.now() may return: the clock never
\* goes back and stands still once it has reached MaxClock
Readings(from) == {t \in from..(from + MaxTick) : t <= MaxClock}

-----------------------------------------------------------------------------
(* Single-run executor: runBenchmark *)

\* the BenchmarkResult runBenchmark returns for an iterations option and a
\* measured duration (lines 122 to 133)
BenchmarkResultOf(iterationsOpt, duration) ==
    LET its == OrDefault(iterationsOpt, 1)
    IN [threw |-> "",
        duration |-> Num(duration),
        iterations |-> its,
        operationsPerSecond |-> Mul(Div(Num(its), Num(duration)), Num(1000))]

NoResult == [threw |-> "not run"]

\* the options a caller passes
RunOptions == [iterations : 0..MaxRunIterations, warmupRuns : 0..MaxRunIterations]

RunIdle ==
    /\ rbOpts = [iterations |-> 0, warmupRuns |-> 0]
    /\ rbPc = "idle"
    /\ rbWarmupCalls = 0
    /\ rbTimedCalls = 0
    /\ rbStartTime = 0
    /\ rbResult = NoResult

RunInit ==
    /\ rbOpts \in RunOptions
    /\ rbPc = "warmup"
    /\ rbWarmupCalls = 0
    /\ rbTimedCalls = 0
    /\ rbStartTime = 0
    /\ rbResult = NoResult

\* one pass of the warmup loop: an untimed call of the measured function
RunWarmupCall ==
    /\ rbPc = "warmup"
    /\ rbWarmupCalls < rbOpts.warmupRuns
    /\ rbWarmupCalls' = rbWarmupCalls + 1
    /\ \E t \in Readings(now) : now' = t
    /\ UNCHANGED <<rbOpts, rbPc, rbTimedCalls, rbStartTime, rbResult>>
    /\ UNCHANGED <<statsVars, adVars, isoVars, cmpVars, stabVars, monVars>>

\* the initial measurements: startTime = performance.now()
RunTakeStart ==
    /\ rbPc = "warmup"
    /\ rbWarmupCalls >= rbOpts.warmupRuns
    /\ \E t \in Readings(now) : now' = t /\ rbStartTime' = t
    /\ rbPc' = "timed"
    /\ UNCHANGED <<rbOpts, rbWarmupCalls, rbTimedCalls, rbResult>>
    /\ UNCHANGED <<statsVars, adVars, isoVars, cmpVars, stabVars, monVars>>

\* one pass of the timed loop: i < (opts.iterations || 1)
RunTimedCall ==
    /\ rbPc = "timed"
    /\ rbTimedCalls < OrDefault(rbOpts.iterations, 1)
    /\ rbTimedCalls' = rbTimedCalls + 1
    /\ UNCHANGED <<now, rbOpts, rbPc, rbWarmupCalls, rbStartTime, rbResult>>
    /\ UNCHANGED <<statsVars, adVars, isoVars, cmpVars, stabVars, monVars>>

\* the final measurements and the returned result
RunFinish ==
    /\ rbPc = "timed"
    /\ rbTimedCalls >= OrDefault(rbOpts.iterations, 1)
    /\ \E t \in Readings(now) :
          /\ now' = t
          /\ rbResult' = BenchmarkResultOf(rbOpts.iterations, t - rbStartTime)
    /\ rbPc' = "done"
    /\ UNCHANGED <<rbOpts, rbWarmupCalls, rbTimedCalls, rbStartTime>>
    /\ UNCHANGED <<statsVars, adVars, isoVars, cmpVars, stabVars, monVars>>

RunNext == RunWarmupCall \/ RunTakeStart \/ RunTimedCall \/ RunFinish

-----------------------------------------------------------------------------
(* Adaptive calibration controller *)

\* DEFAULT_ADAPTIVE_OPTIONS
DefaultMinIterations == 1000

DefaultMaxIterations == 10000000

DefaultTargetDuration == 500

DefaultMaxTime == 30000

DefaultTargetRSD == 2

DefaultMinSamples == 5

DefaultMaxSamples == 100

DefaultAdaptiveSteps == 4

\* the clamp of findIterationsForTargetDuration:
\* Math.max(minIterations, Math.min(maxIterations, its))
ClampIterations(opts, its) ==
    MathMax(Num(OrDefault(opts.minIterations, DefaultMinIterations)),
            MathMin(Num(OrDefault(opts.maxIterations, DefaultMaxIterations)), its))

\* findIterationsForTargetDuration, for the two durations it measures
FindIterationsForTargetDuration(opts, d1, d2) ==
    LET target == Num(OrDefault(opts.targetDuration, DefaultTargetDuration))
        first == Num(OrDefault(opts.minIterations, DefaultMinIterations))
        iterationsPerMs == Div(first, Num(d1))
        scaled == ClampIterations(opts, Floor(Mul(iterationsPerMs, target)))
        adjustmentFactor == Div(target, Num(d2))
    IN IF Gt(Abs(Sub(Num(d2), target)), Mul(target, Norm(2, 10)))
       THEN ClampIterations(opts, Floor(Mul(scaled, adjustmentFactor))).n
       ELSE scaled.n

\* (stats.standardDeviation / stats.mean) * 100, squared
RsdSquared(st) == Mul(Div(st.variance, Mul(st.mean, st.mean)), Num(10000))

\* relativeStandardDeviation > (opts.targetRSD || 2.0)
RsdAboveTarget(rsdSquared, opts) ==
    LET target == Num(OrDefault(opts.targetRSD, DefaultTargetRSD))
    IN Gt(rsdSquared, Mul(target, target))

\* Math.min(maxIterations, Math.floor(iterations * 1.5))
RescaledIterations(opts, its) ==
    MathMin(Num(OrDefault(opts.maxIterations, DefaultMaxIterations)),
            Floor(Mul(Num(its), Norm(3, 2)))).n

DurationsOf(smpls) == [i \in 1..Len(smpls) |-> Num(smpls[i].duration)]

AdaptiveOptions ==
    [minIterations : {2, 4},
     maxIterations : {3, 9},
     targetDuration : {2},
     maxTime : {1, 3},
     targetRSD : {50},
     minSamples : {1, 4},
     maxSamples : {3},
     adaptiveSteps : {0, 2}]

AdaptiveIdle ==
    /\ adOpts = [minIterations |-> 0, maxIterations |-> 0, targetDuration |-> 0,
                 maxTime |-> 0, targetRSD |-> 0, minSamples |-> 0, maxSamples |-> 0,
                 adaptiveSteps |-> 0]
    /\ adPc = "idle"
    /\ iterations = 0
    /\ initialIterations = 0
    /\ currentStep = 0
    /\ startTime = 0
    /\ samples = <<>>
    /\ adjustmentSteps = 0
    /\ relativeStandardDeviation = Infinity
    /\ adWarned = FALSE
    /\ adResult = NoResult

AdaptiveInit ==
    /\ adOpts \in AdaptiveOptions
    /\ adPc = "calibrate"
    /\ iterations = 0
    /\ initialIterations = 0
    /\ currentStep = 0
    /\ startTime = 0
    /\ samples = <<>>
    /\ adjustmentSteps = 0
    /\ relativeStandardDeviation = Infinity
    /\ adWarned = FALSE
    /\ adResult = NoResult

\* lines 477 to 492: phase A, the initial state and the warmup.  The clock
\* is counted from the reading that sets startTime.
AdaptiveCalibrate ==
    /\ adPc = "calibrate"
    /\ \E d1 \in 0..MaxTick, d2 \in 0..MaxTick :
          /\ iterations' = FindIterationsForTargetDuration(adOpts, d1, d2)
          /\ initialIterations' = iterations'
    /\ currentStep' = 1
    /\ startTime' = now
    /\ samples' = <<>>
    /\ adjustmentSteps' = 0
    /\ relativeStandardDeviation' = Infinity
    /\ adPc' = "loop"
    /\ UNCHANGED <<now, adOpts, adWarned, adResult>>
    /\ UNCHANGED <<statsVars, rbVars, isoVars, cmpVars, stabVars, monVars>>

\* the condition of the while loop (lines 495 to 500); the clock is read
\* only when the conditions before it leave the outcome open
AdaptiveLoopTest ==
    /\ adPc = "loop"
    /\ LET needMore == Len(samples) < OrDefault(adOpts.minSamples, DefaultMinSamples)
           unstable == /\ RsdAboveTarget(relativeStandardDeviation, adOpts)
                       /\ Len(samples) < OrDefault(adOpts.maxSamples, DefaultMaxSamples)
       IN IF needMore \/ ~unstable
          THEN /\ now' = now
               /\ adPc' = IF needMore THEN "body" ELSE "final"
          ELSE \E t \in Readings(now) :
                  /\ now' = t
                  /\ adPc' = IF t - startTime < OrDefault(adOpts.maxTime, DefaultMaxTime)
                             THEN "body" ELSE "final"
    /\ UNCHANGED <<adOpts, iterations, initialIterations, currentStep, startTime,
                   samples, adjustmentSteps, relativeStandardDeviation, adWarned,
                   adResult>>
    /\ UNCHANGED <<statsVars, rbVars, isoVars, cmpVars, stabVars, monVars>>

\* a loop body whose clearing of the samples stands outside the rescale: once
\* the iterations have grown beyond twice the initial count, every pass
\* that evaluates the statistics discards the samples
AdaptiveSampleClearsOutsideRescale ==
    /\ adPc = "body"
    /\ \E tStart \in Readings(now) : \E tEnd \in Readings(tStart) :
          LET result == BenchmarkResultOf(iterations, tEnd - tStart)
              pushed == Append(samples, [duration |-> tEnd - tStart,
                                         iterations |-> result.iterations])
              evaluated == Len(pushed) >= 3
          IN /\ now' = tEnd
             /\ relativeStandardDeviation' =
                    IF evaluated THEN RsdSquared(CalculateStats(DurationsOf(pushed)))
                    ELSE relativeStandardDeviation
             /\ currentStep' =
                    IF /\ evaluated
                       /\ currentStep <= OrDefault(adOpts.adaptiveSteps, DefaultAdaptiveSteps)
                       /\ RsdAboveTarget(relativeStandardDeviation', adOpts)
                    THEN currentStep + 1 ELSE currentStep
             /\ adjustmentSteps' = adjustmentSteps + (currentStep' - currentStep)
             /\ iterations' = IF currentStep' # currentStep
                              THEN RescaledIterations(adOpts, iterations)
                              ELSE iterations
             /\ samples' = IF evaluated /\ iterations' > initialIterations * 2
                           THEN <<>> ELSE pushed
             /\ adWarned' = (adWarned
                             \/ now' - startTime > OrDefault(adOpts.maxTime, DefaultMaxTime))
             /\ adPc' = IF now' - startTime > OrDefault(adOpts.maxTime, DefaultMaxTime)
                        THEN "final" ELSE "loop"
    /\ UNCHANGED <<adOpts, initialIterations, startTime, adResult>>
    /\ UNCHANGED <<statsVars, rbVars, isoVars, cmpVars, stabVars, monVars>>

\* the body of the while loop (lines 501 to 533): one run of runBenchmark,
\* the statistics, the rescale and the time check.  The reading of the time
\* check is the instant of the run's end reading; the time the clock may
\* gain between two samples is the gain before the run's start reading.
AdaptiveSample ==
    /\ adPc = "body"
    /\ \E tStart \in Readings(now) : \E tEnd \in Readings(tStart) :
          LET result == BenchmarkResultOf(iterations, tEnd - tStart)
              pushed == Append(samples, [duration |-> tEnd - tStart,
                                         iterations |-> result.iterations])
              evaluated == Len(pushed) >= 3
          IN /\ now' = tEnd
             /\ relativeStandardDeviation' =
                    IF evaluated THEN RsdSquared(CalculateStats(DurationsOf(pushed)))
                    ELSE relativeStandardDeviation
             /\ currentStep' =
                    IF /\ evaluated
                       /\ currentStep <= OrDefault(adOpts.adaptiveSteps, DefaultAdaptiveSteps)
                       /\ RsdAboveTarget(relativeStandardDeviation', adOpts)
                    THEN currentStep + 1 ELSE currentStep
             /\ adjustmentSteps' = adjustmentSteps + (currentStep' - currentStep)
             /\ iterations' = IF currentStep' # currentStep
                              THEN RescaledIterations(adOpts, iterations)
                              ELSE iterations
             /\ samples' = IF currentStep' # currentStep /\ iterations' > initialIterations * 2
                           THEN <<>> ELSE pushed
             /\ adWarned' = (adWarned
                             \/ now' - startTime > OrDefault(adOpts.maxTime, DefaultMaxTime))
             /\ adPc' = IF now' - startTime > OrDefault(adOpts.maxTime, DefaultMaxTime)
                        THEN "final" ELSE "loop"
    /\ UNCHANGED <<adOpts, initialIterations, startTime, adResult>>
    /\ UNCHANGED <<statsVars, rbVars, isoVars, cmpVars, stabVars, monVars>>

\* lines 536 to 565: the final statistics and the combined result
AdaptiveFinish ==
    /\ adPc = "final"
    /\ LET durationStats == CalculateStats(DurationsOf(samples))
       IN IF durationStats.threw # ""
          THEN /\ adResult' = [threw |-> durationStats.threw]
               /\ adPc' = "threw"
          ELSE /\ adResult' =
                    [threw |-> "",
                     duration |-> durationStats.mean,
                     iterations |-> iterations,
                     operationsPerSecond |->
                         Div(Num(iterations), Div(durationStats.mean, Num(1000))),
                     calibration |->
                         [initialIterations |-> initialIterations,
                          finalIterations |-> iterations,
                          samples |-> Len(samples),
                          relativeStandardDeviation |-> relativeStandardDeviation,
                          adjustmentSteps |-> adjustmentSteps]]
               /\ adPc' = "done"
    /\ UNCHANGED <<now, adOpts, iterations, initialIterations, currentStep, startTime,
                   samples, adjustmentSteps, relativeStandardDeviation, adWarned>>
    /\ UNCHANGED <<statsVars, rbVars, isoVars, cmpVars, stabVars, monVars>>

AdaptiveNext ==
    AdaptiveCalibrate \/ AdaptiveLoopTest \/ AdaptiveSample \/ AdaptiveFinish

-----------------------------------------------------------------------------
(* Isolated execution orchestrator: runIsolatedBenchmark *)

\* a value the measured function returns, with its typeof: a string that
\* is not numeric, or a number
StringValue(str) == [type |-> "string", text |-> str, number |-> NaN]

NumberValue(a) == [type |-> "number", text |-> "", number |-> a]

\* what one context measures: a duration and the four memory deltas, and
\* the value the last call of the measured function returned
Measurements ==
    {[duration |-> 0, heapUsed |-> 4, heapTotal |-> 8, rss |-> 16, external |-> 0,
      result |-> StringValue("a")],
     [duration |-> 1, heapUsed |-> -2, heapTotal |-> 0, rss |-> 6, external |-> 2,
      result |-> StringValue("b")],
     [duration |-> 2, heapUsed |-> 4, heapTotal |-> 8, rss |-> 16, external |-> 0,
      result |-> NumberValue(Num(3))],
     [duration |-> 1, heapUsed |-> 4, heapTotal |-> 8, rss |-> 16, external |-> 0,
      result |-> NumberValue(Num(6))]}

\* the result a context's script sends (WORKER_SCRIPT, PROCESS_SCRIPT)
ReportOf(its, m) ==
    [duration |-> Num(m.duration),
     iterations |-> its,
     operationsPerSecond |-> Mul(Div(Num(its), Num(m.duration)), Num(1000)),
     memoryDelta |-> [heapUsed |-> Num(m.heapUsed), heapTotal |-> Num(m.heapTotal),
                      rss |-> Num(m.rss), external |-> Num(m.external)],
     result |-> m.result]

\* the forEach of combineResults over the first k results
RECURSIVE Accumulate(_, _)
Accumulate(rs, k) ==
    IF k = 0
    THEN [duration |-> Num(0),
          iterations |-> rs[1].iterations,
          operationsPerSecond |-> Num(0),
          memoryDelta |-> [heapUsed |-> Num(0), heapTotal |-> Num(0),
                           rss |-> Num(0), external |-> Num(0)]]
    ELSE LET c == Accumulate(rs, k - 1)
             r == rs[k]
             n == Num(Len(rs))
         IN [duration |-> Add(c.duration, Div(r.duration, n)),
             iterations |-> c.iterations,
             operationsPerSecond |-> Add(c.operationsPerSecond,
                                         Div(r.operationsPerSecond, n)),
             memoryDelta |->
                 [heapUsed |-> Add(c.memoryDelta.heapUsed, Div(r.memoryDelta.heapUsed, n)),
                  heapTotal |-> Add(c.memoryDelta.heapTotal, Div(r.memoryDelta.heapTotal, n)),
                  rss |-> Add(c.memoryDelta.rss, Div(r.memoryDelta.rss, n)),
                  external |-> Add(c.memoryDelta.external, Div(r.memoryDelta.external, n))]]

\* a combineResults that adds the metrics up and does not divide them
CombineResultsNoDivision(rs) ==
    IF Len(rs) = 0 THEN [threw |-> "No results to combine"]
    ELSE IF Len(rs) = 1 THEN rs[1]
    ELSE [duration |-> SumSeq([i \in 1..Len(rs) |-> rs[i].duration]),
          iterations |-> rs[1].iterations,
          operationsPerSecond |-> SumSeq([i \in 1..Len(rs) |-> rs[i].operationsPerSecond]),
          memoryDelta |->
              [heapUsed |-> SumSeq([i \in 1..Len(rs) |-> rs[i].memoryDelta.heapUsed]),
               heapTotal |-> SumSeq([i \in 1..Len(rs) |-> rs[i].memoryDelta.heapTotal]),
               rss |-> SumSeq([i \in 1..Len(rs) |-> rs[i].memoryDelta.rss]),
               external |-> SumSeq([i \in 1..Len(rs) |-> rs[i].memoryDelta.external])]]

\* the custom key 'result' of the combined result (lines 696 to 708): the
\* average when the first result's value is a number (a sum that meets a
\* string is a string that is no number, and its quotient NaN), the first
\* result's value otherwise
CombinedCustomKey(rs) ==
    IF rs[1].result.type = "number"
    THEN IF \A i \in DOMAIN rs : rs[i].result.type = "number"
         THEN NumberValue(Div(SumSeq([i \in 1..Len(rs) |-> rs[i].result.number]),
                              Num(Len(rs))))
         ELSE NumberValue(NaN)
    ELSE rs[1].result

\* a combineResults without the shortcut for a single result and without the
\* custom keys: the combined result holds the averaged metrics only
CombineResultsMetricsOnly(rs) ==
    IF Len(rs) = 0 THEN [threw |-> "No results to combine"]
    ELSE Accumulate(rs, Len(rs))

\* combineResults
CombineResults(rs) ==
    IF Len(rs) = 0 THEN [threw |-> "No results to combine"]
    ELSE IF Len(rs) = 1 THEN rs[1]
    ELSE [result |-> CombinedCustomKey(rs)] @@ Accumulate(rs, Len(rs))

\* cleanupTempFile: the file is unlinked; unlinking it again fails and is
\* only warned about
CleanupTempFile(file) == "deleted"

\* resolve and reject of the returned promise: only the first call settles it
Settle(call, value) ==
    /\ settleCalls' = Append(settleCalls, call)
    /\ promise' = IF promise = "pending"
                  THEN (IF call = "resolve" THEN "resolved" ELSE "rejected")
                  ELSE promise
    /\ combinedResult' = IF promise = "pending" /\ call = "resolve"
                         THEN value ELSE combinedResult

\* a handleCompletion without its error branch: a failure of a context is
\* counted like a completion that brought no result
HandleCompletionCountsErrors(result, error) ==
    IF errorOccurred
    THEN UNCHANGED <<tempFile, cleanupCalls, promise, settleCalls, results,
                     completedCount, errorOccurred, combinedResult>>
    ELSE /\ results' = IF error THEN results ELSE Append(results, result)
         /\ completedCount' = completedCount + 1
         /\ errorOccurred' = errorOccurred
         /\ IF completedCount' = isoOpts.processCount
            THEN /\ tempFile' = CleanupTempFile(tempFile)
                 /\ cleanupCalls' = cleanupCalls + 1
                 /\ Settle("resolve", CombineResults(results'))
            ELSE UNCHANGED <<tempFile, cleanupCalls, promise, settleCalls,
                             combinedResult>>

\* a handleCompletion whose error branch rejects without cleaning up
HandleCompletionNoCleanupOnError(result, error) ==
    IF errorOccurred
    THEN UNCHANGED <<tempFile, cleanupCalls, promise, settleCalls, results,
                     completedCount, errorOccurred, combinedResult>>
    ELSE IF error
    THEN /\ errorOccurred' = TRUE
         /\ Settle("reject", NoResult)
         /\ UNCHANGED <<tempFile, cleanupCalls, results, completedCount>>
    ELSE /\ results' = Append(results, result)
         /\ completedCount' = completedCount + 1
         /\ errorOccurred' = errorOccurred
         /\ IF completedCount' = isoOpts.processCount
            THEN /\ tempFile' = CleanupTempFile(tempFile)
                 /\ cleanupCalls' = cleanupCalls + 1
                 /\ Settle("resolve", CombineResults(results'))
            ELSE UNCHANGED <<tempFile, cleanupCalls, promise, settleCalls,
                             combinedResult>>

\* handleCompletion(result, error) (lines 408 to 430)
HandleCompletion(result, error) ==
    IF errorOccurred
    THEN UNCHANGED <<tempFile, cleanupCalls, promise, settleCalls, results,
                     completedCount, errorOccurred, combinedResult>>
    ELSE IF error
    THEN /\ errorOccurred' = TRUE
         /\ tempFile' = CleanupTempFile(tempFile)
         /\ cleanupCalls' = cleanupCalls + 1
         /\ Settle("reject", NoResult)
         /\ UNCHANGED <<results, completedCount>>
    ELSE /\ results' = Append(results, result)
         /\ completedCount' = completedCount + 1
         /\ errorOccurred' = errorOccurred
         /\ IF completedCount' = isoOpts.processCount
            THEN /\ tempFile' = CleanupTempFile(tempFile)
                 /\ cleanupCalls' = cleanupCalls + 1
                 /\ Settle("resolve", CombineResults(results'))
            ELSE UNCHANGED <<tempFile, cleanupCalls, promise, settleCalls,
                             combinedResult>>

\* the characters the class [a-zA-Z0-9_$] of the validation accepts, as far
\* as the names below use them
IdentifierCharacters == {"a", "Z", "9", "_", "$"}

\* benchmark names, as sequences of characters: the empty name, names with a
\* character outside the class, and names inside it
IsolatedBenchmarkNames ==
    {<<>>, <<"a", "-", "Z">>, <<"a", ";">>, <<"a", "9">>, <<"_", "$">>}

\* a validation that accepts the empty name
ValidBenchmarkNameAllowsEmpty(benchmarkName) ==
    \A i \in DOMAIN benchmarkName : benchmarkName[i] \in IdentifierCharacters

\* /^[a-zA-Z0-9_$]+$/.test(benchmarkName) (line 395)
ValidBenchmarkName(benchmarkName) ==
    /\ Len(benchmarkName) >= 1
    /\ \A i \in DOMAIN benchmarkName : benchmarkName[i] \in IdentifierCharacters

IsolatedOptions ==
    [processCount : 0..MaxProc, iterations : {2},
     benchmarkName : IsolatedBenchmarkNames]

IsolatedIdle ==
    /\ isoOpts = [processCount |-> 0, iterations |-> 0, benchmarkName |-> <<>>]
    /\ isoPc = "idle"
    /\ tempFile = "none"
    /\ cleanupCalls = 0
    /\ promise = "none"
    /\ settleCalls = <<>>
    /\ results = <<>>
    /\ completedCount = 0
    /\ errorOccurred = FALSE
    /\ ctx = <<>>
    /\ ctxFailed = {}
    /\ combinedResult = NoResult

IsolatedInit ==
    /\ isoOpts \in IsolatedOptions
    /\ isoPc = "start"
    /\ tempFile = "none"
    /\ cleanupCalls = 0
    /\ promise = "none"
    /\ settleCalls = <<>>
    /\ results = <<>>
    /\ completedCount = 0
    /\ errorOccurred = FALSE
    /\ ctx = <<>>
    /\ ctxFailed = {}
    /\ combinedResult = NoResult

\* the synchronous part of runIsolatedBenchmark (lines 392 to 455): the
\* validation, the temporary file, and the launch loop of the promise's
\* executor, whose launch number throwAt throws (0: none does)
IsolatedStart ==
    /\ isoPc = "start"
    /\ IF ~ValidBenchmarkName(isoOpts.benchmarkName)
       THEN /\ isoPc' = "threw"
            /\ UNCHANGED <<tempFile, cleanupCalls, promise, settleCalls, ctx>>
       ELSE \E throwAt \in 0..OrDefault(isoOpts.processCount, 1) :
               /\ isoPc' = "running"
               /\ ctx' = [c \in 1..(IF throwAt = 0
                                    THEN OrDefault(isoOpts.processCount, 1)
                                    ELSE throwAt - 1) |-> "running"]
               /\ IF throwAt = 0
                  THEN /\ tempFile' = "exists"
                       /\ promise' = "pending"
                       /\ UNCHANGED <<cleanupCalls, settleCalls>>
                  ELSE /\ tempFile' = CleanupTempFile("exists")
                       /\ cleanupCalls' = cleanupCalls + 1
                       /\ promise' = "rejected"
                       /\ settleCalls' = <<"reject">>
    /\ UNCHANGED <<isoOpts, results, completedCount, errorOccurred, ctxFailed,
                   combinedResult>>
    /\ UNCHANGED <<statsVars, now, rbVars, adVars, cmpVars, stabVars, monVars>>

\* the 'message' handler on a BENCHMARK_RESULT message of context c
IsolatedResultReport(c) ==
    /\ isoPc = "running"
    /\ ctx[c] = "running"
    /\ ctx' = [ctx EXCEPT ![c] = "sentResult"]
    /\ \E m \in Measurements : HandleCompletion(ReportOf(isoOpts.iterations, m), FALSE)
    /\ UNCHANGED <<isoOpts, isoPc, ctxFailed>>
    /\ UNCHANGED <<statsVars, now, rbVars, adVars, cmpVars, stabVars, monVars>>

\* the 'message' handler on an ERROR message, or the 'error' handler, of
\* context c
IsolatedErrorReport(c) ==
    /\ isoPc = "running"
    /\ ctx[c] = "running"
    /\ ctx' = [ctx EXCEPT ![c] = "sentError"]
    /\ ctxFailed' = ctxFailed \cup {c}
    /\ HandleCompletion(NoResult, TRUE)
    /\ UNCHANGED <<isoOpts, isoPc>>
    /\ UNCHANGED <<statsVars, now, rbVars, adVars, cmpVars, stabVars, monVars>>

\* the 'exit' handler of context c: code 0 after a result, 0 (worker) or 1
\* (process) after an error, and not 0 when the context dies before it
\* reported
IsolatedExit(c) ==
    /\ isoPc = "running"
    /\ ctx[c] \in {"running", "sentResult", "sentError"}
    /\ ctx' = [ctx EXCEPT ![c] = "exited"]
    /\ \E code \in {0, 1} :
          /\ ctx[c] = "running" => code # 0
          /\ ctx[c] = "sentResult" => code = 0
          /\ ctxFailed' = IF code # 0 THEN ctxFailed \cup {c} ELSE ctxFailed
          /\ IF code # 0
             THEN HandleCompletion(NoResult, TRUE)
             ELSE UNCHANGED <<tempFile, cleanupCalls, promise, settleCalls, results,
                              completedCount, errorOccurred, combinedResult>>
    /\ UNCHANGED <<isoOpts, isoPc>>
    /\ UNCHANGED <<statsVars, now, rbVars, adVars, cmpVars, stabVars, monVars>>

IsolatedNext ==
    \/ IsolatedStart
    \/ \E c \in DOMAIN ctx : IsolatedResultReport(c)
    \/ \E c \in DOMAIN ctx : IsolatedErrorReport(c)
    \/ \E c \in DOMAIN ctx : IsolatedExit(c)

-----------------------------------------------------------------------------
(* Stability calibration: findIterationsForStatisticalStability *)

\* the most samples the model lets the calibration hold
MaxHeld == 4

RECURSIVE SumDurations(_)
SumDurations(durations) ==
    IF durations = <<>> THEN 0
    ELSE durations[1] + SumDurations(Tail(durations))

\* rsd <= targetRSD for the rsd of lines 195 to 199, decided exactly in
\* integers: for n durations of sum S the variance (which divides by n)
\* over the squared mean is the sum of the (n * d - S)^2 over n * S^2, and
\* rsd is 100 times its root.  A mean of 0 makes rsd NaN, which is within
\* no target.
RsdWithinTarget(durations, targetRSD) ==
    LET n == Len(durations)
        total == SumDurations(durations)
        spread == SumDurations([i \in 1..n |->
                                   (n * durations[i] - total) * (n * durations[i] - total)])
    IN /\ total # 0
       /\ 10000 * spread <= targetRSD * targetRSD * n * total * total

StabilityOptions ==
    [targetRSD : {50}, initialIterations : {1, 3}, maxIterations : {2, 8},
     minSamples : {1, 2, 3}]

StabilityIdle ==
    /\ stabOpts = [targetRSD |-> 0, initialIterations |-> 0, maxIterations |-> 0,
                   minSamples |-> 0]
    /\ stabPc = "idle"
    /\ stabIterations = 0
    /\ stabSamples = <<>>
    /\ stabReturned = 0

\* lines 183 to 185
StabilityInit ==
    /\ stabOpts \in StabilityOptions
    /\ stabPc = "test"
    /\ stabIterations = stabOpts.initialIterations
    /\ stabSamples = <<>>
    /\ stabReturned = 0

\* the condition of the while loop (line 187) and the return after it
\* (line 218)
StabilityLoopTest ==
    /\ stabPc = "test"
    /\ IF stabIterations <= stabOpts.maxIterations
       THEN /\ stabPc' = "body"
            /\ stabReturned' = stabReturned
       ELSE /\ stabPc' = "returned"
            /\ stabReturned' = stabOpts.maxIterations
    /\ UNCHANGED <<stabOpts, stabIterations, stabSamples>>
    /\ UNCHANGED <<statsVars, now, rbVars, adVars, isoVars, cmpVars, monVars>>

\* the body of the while loop (lines 188 to 215): one call of the measured
\* function, which took duration milliseconds
StabilitySample ==
    /\ stabPc = "body"
    /\ Len(stabSamples) < MaxHeld
    /\ \E duration \in 0..MaxTick :
          LET pushed == Append(stabSamples, duration)
              doubled == IF stabIterations * 2 < stabOpts.maxIterations
                         THEN stabIterations * 2 ELSE stabOpts.maxIterations
          IN IF /\ Len(pushed) >= stabOpts.minSamples
                /\ RsdWithinTarget(pushed, stabOpts.targetRSD)
             THEN /\ stabPc' = "returned"
                  /\ stabReturned' = stabIterations
                  /\ stabSamples' = pushed
                  /\ stabIterations' = stabIterations
             ELSE /\ stabPc' = "test"
                  /\ stabReturned' = stabReturned
                  /\ stabIterations' = doubled
                  /\ stabSamples' = IF doubled > stabOpts.initialIterations * 4
                                    THEN <<>> ELSE pushed
    /\ UNCHANGED stabOpts
    /\ UNCHANGED <<statsVars, now, rbVars, adVars, isoVars, cmpVars, monVars>>

StabilityNext == StabilityLoopTest \/ StabilitySample

-----------------------------------------------------------------------------
(* Comparator: compareBenchmarks, compareAdaptiveBenchmarks and
   runMultipleAdaptiveBenchmarks *)

\* the names a caller gives to benchmarks; "1" is an integer-like
\* property key
BenchmarkNames == {"A", "B", "1"}

IntegerKeys == <<"1">>

\* the duration a run of a benchmark reports: the measured duration of
\* runBenchmark, the mean sample duration of runAdaptiveBenchmark
MeasuredDurations == {0, 1, 2}

\* the benchmarks of the comparison scenario, with their durations
ScenarioBenchmarks ==
    <<[name |-> "A", duration |-> 10], [name |-> "B", duration |-> 20],
      [name |-> "C", duration |-> 5]>>

BenchmarkLists ==
    UNION {[1..n -> [name : BenchmarkNames, duration : MeasuredDurations]] :
              n \in 1..MaxBenchmarks}
        \cup {ScenarioBenchmarks}

\* a comparison whose test of the ratio is turned around: the benchmark of
\* the larger duration is named
ComparisonOfNamesSlower(nameA, durationA, nameB, durationB) ==
    LET timeRatio == Div(durationA, durationB)
    IN [benchmarkA |-> nameA,
        benchmarkB |-> nameB,
        timeRatio |-> timeRatio,
        fasterName |-> IF Lt(timeRatio, Num(1)) THEN nameB ELSE nameA,
        percentFaster |-> IF Gt(timeRatio, Num(1))
                          THEN Mul(Sub(timeRatio, Num(1)), Num(100))
                          ELSE Mul(Sub(Div(Num(1), timeRatio), Num(1)), Num(100))]

\* timeRatio, fasterName and percentFaster as the three comparators compute
\* them from the two durations; opsRatio and memoryRatio are ratios of
\* fields that the verdict does not read
ComparisonOf(nameA, durationA, nameB, durationB) ==
    LET timeRatio == Div(durationA, durationB)
    IN [benchmarkA |-> nameA,
        benchmarkB |-> nameB,
        timeRatio |-> timeRatio,
        fasterName |-> IF Gt(timeRatio, Num(1)) THEN nameB ELSE nameA,
        percentFaster |-> IF Gt(timeRatio, Num(1))
                          THEN Mul(Sub(timeRatio, Num(1)), Num(100))
                          ELSE Mul(Sub(Div(Num(1), timeRatio), Num(1)), Num(100))]

\* results[benchmark.name] = ... over the list: a later benchmark of the
\* same name overwrites the result of an earlier one
RECURSIVE ResultsByName(_)
ResultsByName(bs) ==
    IF bs = <<>> THEN [name \in {} |-> Num(0)]
    ELSE LET last == bs[Len(bs)]
         IN (last.name :> Num(last.duration)) @@ ResultsByName(SubSeq(bs, 1, Len(bs) - 1))

\* the names of the list in order of first appearance
RECURSIVE FirstAppearances(_)
FirstAppearances(bs) ==
    IF bs = <<>> THEN <<>>
    ELSE LET front == FirstAppearances(SubSeq(bs, 1, Len(bs) - 1))
             name == bs[Len(bs)].name
         IN IF \E i \in DOMAIN front : front[i] = name THEN front
            ELSE Append(front, name)

\* Object.keys(results): the integer-like keys in ascending order, then the
\* other keys in order of insertion
ObjectKeys(bs) ==
    LET inserted == FirstAppearances(bs)
        Inserted(name) == \E i \in DOMAIN inserted : inserted[i] = name
        IsIntegerKey(name) == \E i \in DOMAIN IntegerKeys : IntegerKeys[i] = name
        IsStringKey(name) == ~IsIntegerKey(name)
    IN SelectSeq(IntegerKeys, Inserted) \o SelectSeq(inserted, IsStringKey)

\* the pairwise comparisons of the loops over i and j = i + 1 .., in order
RECURSIVE PairsFrom(_, _, _, _)
PairsFrom(names, byName, i, j) ==
    IF i > Len(names) THEN <<>>
    ELSE IF j > Len(names) THEN PairsFrom(names, byName, i + 1, i + 2)
    ELSE <<ComparisonOf(names[i], byName[names[i]], names[j], byName[names[j]])>>
             \o PairsFrom(names, byName, i, j + 1)

\* the fastest name after the loop has looked at names[1..k]
RECURSIVE FastestOf(_, _, _)
FastestOf(names, byName, k) ==
    IF k = 1 THEN names[1]
    ELSE LET fastest == FastestOf(names, byName, k - 1)
         IN IF Lt(byName[names[k]], byName[fastest]) THEN names[k] ELSE fastest

\* the slowest name after the loop has looked at names[1..k]
RECURSIVE SlowestOf(_, _, _)
SlowestOf(names, byName, k) ==
    IF k = 1 THEN names[1]
    ELSE LET slowest == SlowestOf(names, byName, k - 1)
         IN IF Gt(byName[names[k]], byName[slowest]) THEN names[k] ELSE slowest

\* what runMultipleAdaptiveBenchmarks returns for the benchmarks bs
MultipleComparison(bs) ==
    LET byName == ResultsByName(bs)
        benchmarkNames == ObjectKeys(bs)
    IN [results |-> byName,
        comparisons |-> PairsFrom(benchmarkNames, byName, 1, 2),
        fastest |-> FastestOf(benchmarkNames, byName, Len(benchmarkNames)),
        slowest |-> SlowestOf(benchmarkNames, byName, Len(benchmarkNames))]

NoComparison == [fasterName |-> "none"]

CompareIdle ==
    /\ cmpBenchmarks = <<>>
    /\ cmpFunction = "idle"
    /\ cmpForward = NoComparison
    /\ cmpBackward = NoComparison
    /\ cmpMany = NoComparison

CompareInit ==
    /\ cmpBenchmarks \in BenchmarkLists
    /\ cmpFunction = "none"
    /\ cmpForward = NoComparison
    /\ cmpBackward = NoComparison
    /\ cmpMany = NoComparison

\* the iteration counts a run reports: the iterations option of runBenchmark,
\* the finalIterations of runAdaptiveBenchmark
ReportedIterations == {2, 9}

\* the fields of a run's result that the comparators read or return:
\* runBenchmark reports the measured duration of its iterations,
\* runAdaptiveBenchmark the mean sample duration and
\* iterations / (durationStats.mean / 1000)
ComparedResultOf(function, its, duration) ==
    [duration |-> Num(duration),
     iterations |-> its,
     operationsPerSecond |->
         IF function = "compareBenchmarks"
         THEN BenchmarkResultOf(its, duration).operationsPerSecond
         ELSE Div(Num(its), Div(Num(duration), Num(1000)))]

\* a call function(first, second) on two benchmarks, or the call
\* function(second, first) on the same two; compareBenchmarks runs both
\* with the same options, the two adaptive runs each end with an iteration
\* count of their own.  The two results are kept with the comparison.
ComparePair(function, swapped) ==
    /\ Len(cmpBenchmarks) = 2
    /\ cmpFunction \in {"none", function}
    /\ cmpFunction' = function
    /\ \E itsA \in ReportedIterations, itsB \in ReportedIterations :
          /\ function = "compareBenchmarks" => itsA = itsB
          /\ LET benchmarkA == cmpBenchmarks[IF swapped THEN 2 ELSE 1]
                 benchmarkB == cmpBenchmarks[IF swapped THEN 1 ELSE 2]
                 comparison ==
                     ComparisonOf(benchmarkA.name, Num(benchmarkA.duration),
                                  benchmarkB.name, Num(benchmarkB.duration))
                         @@ [resultA |-> ComparedResultOf(function, itsA,
                                                          benchmarkA.duration),
                             resultB |-> ComparedResultOf(function, itsB,
                                                          benchmarkB.duration)]
             IN IF swapped
                THEN /\ cmpBackward = NoComparison
                     /\ cmpBackward' = comparison
                     /\ UNCHANGED cmpForward
                ELSE /\ cmpForward = NoComparison
                     /\ cmpForward' = comparison
                     /\ UNCHANGED cmpBackward
    /\ UNCHANGED <<cmpBenchmarks, cmpMany>>
    /\ UNCHANGED <<statsVars, now, rbVars, adVars, isoVars, stabVars, monVars>>

\* a call of compareBenchmarks
CompareBenchmarks == \E swapped \in BOOLEAN : ComparePair("compareBenchmarks", swapped)

\* a call of compareAdaptiveBenchmarks
CompareAdaptiveBenchmarks ==
    \E swapped \in BOOLEAN : ComparePair("compareAdaptiveBenchmarks", swapped)

\* a call of runMultipleAdaptiveBenchmarks
RunMultipleAdaptiveBenchmarks ==
    /\ cmpFunction = "none"
    /\ cmpFunction' = "runMultipleAdaptiveBenchmarks"
    /\ cmpMany' = MultipleComparison(cmpBenchmarks)
    /\ UNCHANGED <<cmpBenchmarks, cmpForward, cmpBackward>>
    /\ UNCHANGED <<statsVars, now, rbVars, adVars, isoVars, stabVars, monVars>>

CompareNext ==
    CompareBenchmarks \/ CompareAdaptiveBenchmarks \/ RunMultipleAdaptiveBenchmarks

-----------------------------------------------------------------------------
(* Monitored run: runMonitoredBenchmark.  The function is async: it runs
   until it awaits, and only while it is suspended does the event loop run
   timer callbacks. *)

\* the longest the measured run takes, in milliseconds
MaxRunLength == 4

DefaultSamplingInterval == 100

MonitorOptions ==
    [monitorCpu : BOOLEAN, monitorMemory : BOOLEAN, samplingInterval : 0..3]

MonitorIdle ==
    /\ monOpts = [monitorCpu |-> FALSE, monitorMemory |-> FALSE, samplingInterval |-> 0]
    /\ monPc = "idle"
    /\ snapshots = <<>>
    /\ monitoringInterval = "null"
    /\ monElapsed = 0

MonitorInit ==
    /\ monOpts \in MonitorOptions
    /\ monPc = "start"
    /\ snapshots = <<>>
    /\ monitoringInterval = "null"
    /\ monElapsed = 0

\* the timer of setInterval is due: it is set, not cleared, and its delay
\* has passed since it was set
TimerDue ==
    /\ monitoringInterval = "active"
    /\ monElapsed >= OrDefault(monOpts.samplingInterval, DefaultSamplingInterval)

\* line 216 up to the await: takeResourceSnapshot is called and the function
\* is suspended
MonitorStart ==
    /\ monPc = "start"
    /\ monPc' = "awaitInitial"
    /\ UNCHANGED <<monOpts, snapshots, monitoringInterval, monElapsed>>
    /\ UNCHANGED <<statsVars, now, rbVars, adVars, isoVars, cmpVars, stabVars>>

\* the event loop while the function is suspended in an await (lines 216
\* and 242): a due timer runs its callback (lines 223 to 229), which pushes
\* a snapshot, and the awaited snapshot arrives and is pushed (lines 217 and
\* 243)
MonitorEventLoop ==
    /\ monPc \in {"awaitInitial", "awaitFinal"}
    /\ snapshots' =
           (IF TimerDue THEN Append(snapshots, "periodic") ELSE snapshots)
               \o <<IF monPc = "awaitInitial" THEN "initial" ELSE "final">>
    /\ monPc' = IF monPc = "awaitInitial" THEN "setup" ELSE "done"
    /\ UNCHANGED <<monOpts, monitoringInterval, monElapsed>>
    /\ UNCHANGED <<statsVars, now, rbVars, adVars, isoVars, cmpVars, stabVars>>

\* lines 220 to 231: setInterval, when monitoring is asked for; the call of
\* runBenchmark (line 234) follows without an await
MonitorSetup ==
    /\ monPc = "setup"
    /\ monitoringInterval' =
           IF monOpts.monitorCpu \/ monOpts.monitorMemory THEN "active" ELSE "null"
    /\ monElapsed' = 0
    /\ monPc' = "run"
    /\ UNCHANGED <<monOpts, snapshots>>
    /\ UNCHANGED <<statsVars, now, rbVars, adVars, isoVars, cmpVars, stabVars>>

\* runBenchmark (line 234) runs for one more millisecond; it is synchronous,
\* so no callback runs meanwhile
MonitorRunTick ==
    /\ monPc = "run"
    /\ monElapsed < MaxRunLength
    /\ monElapsed' = monElapsed + 1
    /\ UNCHANGED <<monOpts, monPc, snapshots, monitoringInterval>>
    /\ UNCHANGED <<statsVars, now, rbVars, adVars, isoVars, cmpVars, stabVars>>

\* runBenchmark returns; lines 237 to 242 up to the await: clearInterval,
\* and takeResourceSnapshot is called
MonitorStop ==
    /\ monPc = "run"
    /\ monitoringInterval' =
           IF monitoringInterval = "active" THEN "cleared" ELSE monitoringInterval
    /\ monPc' = "awaitFinal"
    /\ UNCHANGED <<monOpts, snapshots, monElapsed>>
    /\ UNCHANGED <<statsVars, now, rbVars, adVars, isoVars, cmpVars, stabVars>>

MonitorNext ==
    MonitorStart \/ MonitorEventLoop \/ MonitorSetup \/ MonitorRunTick \/ MonitorStop

-----------------------------------------------------------------------------
(* Specifications *)

StatsSpecInit ==
    /\ StatsInit /\ now = 0 /\ RunIdle /\ AdaptiveIdle /\ IsolatedIdle /\ CompareIdle
    /\ StabilityIdle /\ MonitorIdle

StatsSpec == StatsSpecInit /\ [][StatsNext]_vars

RunSpecInit ==
    /\ RunInit /\ now = 0 /\ StatsIdle /\ AdaptiveIdle /\ IsolatedIdle /\ CompareIdle
    /\ StabilityIdle /\ MonitorIdle

RunSpec == RunSpecInit /\ [][RunNext]_vars

AdaptiveSpecInit ==
    /\ AdaptiveInit /\ now = 0 /\ StatsIdle /\ RunIdle /\ IsolatedIdle /\ CompareIdle
    /\ StabilityIdle /\ MonitorIdle

AdaptiveSpec == AdaptiveSpecInit /\ [][AdaptiveNext]_vars

IsolatedSpecInit ==
    /\ IsolatedInit /\ now = 0 /\ StatsIdle /\ RunIdle /\ AdaptiveIdle /\ CompareIdle
    /\ StabilityIdle /\ MonitorIdle

IsolatedSpec == IsolatedSpecInit /\ [][IsolatedNext]_vars

CompareSpecInit ==
    /\ CompareInit /\ now = 0 /\ StatsIdle /\ RunIdle /\ AdaptiveIdle /\ IsolatedIdle
    /\ StabilityIdle /\ MonitorIdle

CompareSpec == CompareSpecInit /\ [][CompareNext]_vars

StabilitySpecInit ==
    /\ StabilityInit /\ now = 0 /\ StatsIdle /\ RunIdle /\ AdaptiveIdle /\ IsolatedIdle
    /\ CompareIdle /\ MonitorIdle

StabilitySpec == StabilitySpecInit /\ [][StabilityNext]_vars

\* the calibration is synchronous: its loop takes the next step as long as
\* it has one
StabilityFairSpec == StabilitySpecInit /\ [][StabilityNext]_vars /\ WF_vars(StabilityNext)

MonitorSpecInit ==
    /\ MonitorInit /\ now = 0 /\ StatsIdle /\ RunIdle /\ AdaptiveIdle /\ IsolatedIdle
    /\ CompareIdle /\ StabilityIdle

MonitorSpec == MonitorSpecInit /\ [][MonitorNext]_vars

-----------------------------------------------------------------------------
(* Claims on the adaptive calibration controller *)

AdaptiveStopped == adPc \in {"final", "done", "threw"}

\* C2: runAdaptiveBenchmark never fails by itself: when the measured function
\* does not throw, the loop ends and a result is returned, also when the
\* maxTime budget is exceeded right after a rescale discarded the samples.
C2_AdaptiveNeverThrows == adPc # "threw"

\* C5: whenever at least one rescale step occurred, the final iteration count
\* of a returned result is at least the initial one, for every combination
\* of minIterations and maxIterations.
C5_FinalAtLeastInitial ==
    (adPc = "done" /\ adResult.calibration.adjustmentSteps >= 1)
        => adResult.calibration.finalIterations >= adResult.calibration.initialIterations

\* C9: sample collection stops only when at least minSamples samples are held
\* and the relative standard deviation is at most the target, or
\* maxSamples / adaptiveSteps is exhausted, or the maxTime budget is exceeded.
C9_StopsOnlyWhenEnoughSamples ==
    AdaptiveStopped =>
        /\ Len(samples) >= OrDefault(adOpts.minSamples, DefaultMinSamples)
        /\ \/ Le(relativeStandardDeviation,
                 Mul(Num(OrDefault(adOpts.targetRSD, DefaultTargetRSD)),
                     Num(OrDefault(adOpts.targetRSD, DefaultTargetRSD))))
           \/ Len(samples) >= OrDefault(adOpts.maxSamples, DefaultMaxSamples)
           \/ currentStep > OrDefault(adOpts.adaptiveSteps, DefaultAdaptiveSteps)
           \/ now - startTime >= OrDefault(adOpts.maxTime, DefaultMaxTime)

-----------------------------------------------------------------------------
(* Claims on the statistics engine *)

RangeOf(sq) == {sq[i] : i \in DOMAIN sq}

\* C3: for the input [10,10,10,10,10,100], detectOutliers puts 100 in the
\* extreme (or mild) bucket and the mean of the clean set is 10.
C3_ScenarioRejectsOutlier ==
    (values = ScenarioInput /\ statsPc = "detected")
        => /\ Num(100) \in RangeOf(detected.extreme) \cup RangeOf(detected.mild)
           /\ MeanOf(detected.cleanValues) = Num(10)

\* C10: for every non-empty input, the clean set detectOutliers returns has
\* at least half as many elements as the input.
C10_CleanAtLeastHalf ==
    statsPc = "detected" => 2 * Len(detected.cleanValues) >= Len(values)

\* C10 witness: detectOutliers has taken an outlier out of the clean set
C10_Witness ==
    /\ statsPc = "detected"
    /\ Len(detected.cleanValues) < Len(values)
    /\ Len(detected.mild) + Len(detected.extreme) >= 1

-----------------------------------------------------------------------------
(* Claims on the single-run executor *)

\* C4: runBenchmark called with iterations = 0 fails with an invalid-options
\* error: it makes no call of the measured function in the timed loop and
\* returns no BenchmarkResult.
C4_ZeroIterationsRejected ==
    rbOpts.iterations = 0
        => /\ rbTimedCalls = 0
           /\ rbPc = "done" => rbResult.threw # ""

-----------------------------------------------------------------------------
(* Claims on the isolated execution orchestrator *)

ResolveCalled == \E i \in DOMAIN settleCalls : settleCalls[i] = "resolve"

\* C1: with processCount >= 2, once a context has delivered an ErrorReport
\* or exited with a non-zero code the call is rejected, and it is never
\* resolved with a merged result of fewer reports.
C1_FailureRejects ==
    (isoOpts.processCount >= 2 /\ ctxFailed # {})
        => promise = "rejected" /\ ~ResolveCalled

\* C1 witness: a context failed after another context's report had arrived
C1_Witness ==
    /\ isoOpts.processCount >= 2
    /\ ctxFailed # {}
    /\ Len(results) >= 1
    /\ promise = "rejected"

ResultField(f(_)) == [i \in 1..Len(results) |-> f(results[i])]

\* C6: the call resolves only after exactly processCount result reports were
\* received, and the resolved duration, operationsPerSecond and memoryDelta
\* fields are the arithmetic means over those reports.
C6_ResolvesWithMeanOfAll ==
    promise = "resolved"
        => LET n == Num(isoOpts.processCount)
               Duration(r) == r.duration
               Ops(r) == r.operationsPerSecond
               HeapUsed(r) == r.memoryDelta.heapUsed
               HeapTotal(r) == r.memoryDelta.heapTotal
               Rss(r) == r.memoryDelta.rss
               External(r) == r.memoryDelta.external
           IN /\ Len(results) = isoOpts.processCount
              /\ completedCount = isoOpts.processCount
              /\ combinedResult.duration = Div(SumSeq(ResultField(Duration)), n)
              /\ combinedResult.operationsPerSecond = Div(SumSeq(ResultField(Ops)), n)
              /\ combinedResult.memoryDelta.heapUsed = Div(SumSeq(ResultField(HeapUsed)), n)
              /\ combinedResult.memoryDelta.heapTotal = Div(SumSeq(ResultField(HeapTotal)), n)
              /\ combinedResult.memoryDelta.rss = Div(SumSeq(ResultField(Rss)), n)
              /\ combinedResult.memoryDelta.external = Div(SumSeq(ResultField(External)), n)

\* C6 witness: resolved from several reports that differ
C6_Witness ==
    /\ promise = "resolved"
    /\ isoOpts.processCount >= 2
    /\ \E i, j \in DOMAIN results :
          /\ results[i].duration # results[j].duration
          /\ results[i].memoryDelta # results[j].memoryDelta

\* C7: for every non-negative processCount, once every spawned context has
\* sent its report or exited abnormally, the returned promise has settled.
C7_SettledOnceAllReported ==
    (isoPc = "running" /\ \A c \in DOMAIN ctx : ctx[c] = "exited")
        => promise \in {"resolved", "rejected"}

-----------------------------------------------------------------------------
(* Further claims on the statistics engine *)

\* the number of places of the sequence sq that hold x
Count(x, sq) == Cardinality({i \in DOMAIN sq : sq[i] = x})

\* C11: detectOutliers is idempotent on its own output: for every input, a
\* second call on the clean set of the first returns the same clean set and
\* empty mild and extreme buckets.
C11_IdempotentOnClean ==
    statsPc = "redetected"
        => /\ redetected.cleanValues = detected.cleanValues
           /\ redetected.mild = <<>>
           /\ redetected.extreme = <<>>

\* the input values that are in neither outlier bucket, in input order
KeptValues(outliers) ==
    LET IsKept(x) == x \notin RangeOf(outliers.mild) \cup RangeOf(outliers.extreme)
    IN SelectSeq(MapNum(values), IsKept)

\* C12: detectOutliers loses and invents no value: every value is in the
\* clean, mild and extreme buckets together as often as in the input (or the
\* clean set is the input and the buckets are empty), and
\* calculateEnhancedStats computes mean and standardDeviation over the
\* clean set only.
C12_NoValueLostOrInvented ==
    /\ statsPc = "detected"
           => \/ \A x \in RangeOf(MapNum(values)) \cup RangeOf(detected.cleanValues)
                         \cup RangeOf(detected.mild) \cup RangeOf(detected.extreme) :
                     Count(x, MapNum(values))
                         = Count(x, detected.cleanValues) + Count(x, detected.mild)
                               + Count(x, detected.extreme)
              \/ /\ detected.cleanValues = MapNum(values)
                 /\ detected.mild = <<>>
                 /\ detected.extreme = <<>>
    /\ statsPc = "enhanced"
           => /\ enhanced.mean = MeanOf(KeptValues(enhanced.outliers))
              /\ enhanced.variance = VarianceOf(KeptValues(enhanced.outliers),
                                                MeanOf(KeptValues(enhanced.outliers)))

\* C12 witness: the enhanced statistics of an input with an extreme value,
\* whose mean is not the mean of the whole input
C12_Witness ==
    /\ statsPc = "enhanced"
    /\ Len(enhanced.outliers.extreme) >= 1
    /\ enhanced.mean # MeanOf(MapNum(values))

InOrder(st) ==
    /\ Le(st.min, st.median)
    /\ Le(st.median, st.max)
    /\ Le(st.min, st.mean)
    /\ Le(st.mean, st.max)

\* C19: for every non-empty sample sequence, calculateStats returns
\* min <= median <= max and min <= mean <= max.
C19_StatsInOrder ==
    /\ statsPc = "calculated" => InOrder(stats)
    /\ statsPc = "rounded" => InOrder(roundedStats)

ConstantSamples == \A i, j \in DOMAIN values : values[i] = values[j]

\* C20: for every constant sample sequence (all values k, also k = 0),
\* calculateEnhancedStats returns standardDeviation 0, skewness 0 and
\* kurtosis 0, and the relative standard deviation computed from
\* calculateStats is 0.
C20_ConstantSamplesHaveNoSpread ==
    /\ (statsPc = "enhanced" /\ ConstantSamples)
           => /\ enhanced.variance = Num(0)
              /\ enhanced.skewnessTimesDeviation = Num(0)
              /\ enhanced.kurtosis = Num(0)
    /\ (statsPc = "calculated" /\ ConstantSamples) => RsdSquared(stats) = Num(0)

-----------------------------------------------------------------------------
(* Claims on the comparator *)

Compared(c) == c # NoComparison

\* C13: for all measured durations dA and dB (also dA = dB), compare(A, B)
\* and compare(B, A) report the same benchmark name as fasterName.
C13_SwapKeepsFasterName ==
    (Compared(cmpForward) /\ Compared(cmpBackward))
        => cmpForward.fasterName = cmpBackward.fasterName

\* C14: in compareBenchmarks and compareAdaptiveBenchmarks, fasterName is one
\* of the two input names, and it names a benchmark whose measured duration
\* is the lower of the two.
C14_FasterNameHasLowerDuration ==
    \A c \in {cmpForward, cmpBackward} :
        Compared(c)
            => /\ c.fasterName \in {cmpBenchmarks[1].name, cmpBenchmarks[2].name}
               /\ \E i \in 1..2 :
                     /\ cmpBenchmarks[i].name = c.fasterName
                     /\ \A j \in 1..2 :
                           cmpBenchmarks[i].duration <= cmpBenchmarks[j].duration

\* C14 witness: both orders compared, the second benchmark the faster one
C14_Witness ==
    /\ Compared(cmpForward)
    /\ Compared(cmpBackward)
    /\ cmpBenchmarks[1].name # cmpBenchmarks[2].name
    /\ cmpBenchmarks[2].duration < cmpBenchmarks[1].duration
    /\ cmpForward.fasterName = cmpBenchmarks[2].name

\* C15: for all measured durations (also zero durations), percentFaster of
\* compareBenchmarks is a number >= 0 and equals
\* (slowerDuration / fasterDuration - 1) * 100.
C15_PercentFasterNotNegative ==
    (cmpFunction = "compareBenchmarks" /\ Compared(cmpForward))
        => LET dA == cmpBenchmarks[1].duration
               dB == cmpBenchmarks[2].duration
               slower == Num(IF dA > dB THEN dA ELSE dB)
               faster == Num(IF dA > dB THEN dB ELSE dA)
           IN /\ Ge(cmpForward.percentFaster, Num(0))
              /\ cmpForward.percentFaster
                     = Mul(Sub(Div(slower, faster), Num(1)), Num(100))

\* the name of the first benchmark of the input list that has duration d
FirstWithDuration(d) ==
    cmpBenchmarks[CHOOSE i \in DOMAIN cmpBenchmarks :
                      /\ cmpBenchmarks[i].duration = d
                      /\ \A j \in 1..(i - 1) : cmpBenchmarks[j].duration # d].name

\* C16: for a list of n named benchmarks, runMultipleAdaptiveBenchmarks
\* returns n*(n-1)/2 pairwise comparisons, fastest is a benchmark of minimum
\* and slowest one of maximum duration, the first of the input list among
\* equal durations; durations A: 10, B: 20, C: 5 give fastest C, slowest B
\* and 3 comparisons.
C16_MultipleComparison ==
    cmpFunction = "runMultipleAdaptiveBenchmarks"
        => LET n == Len(cmpBenchmarks)
               durations == {cmpBenchmarks[i].duration : i \in 1..n}
               least == CHOOSE d \in durations : \A e \in durations : d <= e
               most == CHOOSE d \in durations : \A e \in durations : d >= e
           IN /\ 2 * Len(cmpMany.comparisons) = n * (n - 1)
              /\ cmpMany.fastest = FirstWithDuration(least)
              /\ cmpMany.slowest = FirstWithDuration(most)
              /\ cmpBenchmarks = ScenarioBenchmarks
                     => /\ cmpMany.fastest = "C"
                        /\ cmpMany.slowest = "B"
                        /\ Len(cmpMany.comparisons) = 3

-----------------------------------------------------------------------------
(* Further claims on the isolated execution orchestrator and the single-run
   executor *)

\* the orders in which n reports may arrive
ArrivalOrders(n) == {p \in [1..n -> 1..n] : \A i, j \in 1..n : p[i] = p[j] => i = j}

\* C17: the merge is order-independent: every arrival order of the same
\* processCount reports yields the same merged result, in all fields
\* (iterations, result and custom fields included).
C17_MergeOrderIndependent ==
    promise = "resolved"
        => \A p \in ArrivalOrders(Len(results)) :
               CombineResults([i \in 1..Len(results) |-> results[p[i]]]) = combinedResult

\* C18: every result runBenchmark returns with iterationCount > 0 has
\* duration > 0 (a run whose two timer readings are equal is no valid
\* sample), so operationsPerSecond is a finite number.
C18_DurationPositive ==
    (rbPc = "done" /\ rbResult.threw = "" /\ rbResult.iterations > 0)
        => /\ Gt(rbResult.duration, Num(0))
           /\ IsFinite(rbResult.operationsPerSecond)

-----------------------------------------------------------------------------
(* Further claims on the isolated execution orchestrator *)

\* the benchmark name of the call is empty or holds a character outside
\* A-Z, a-z, 0-9, _ and $
NameRejected ==
    \/ isoOpts.benchmarkName = <<>>
    \/ \E i \in DOMAIN isoOpts.benchmarkName :
          isoOpts.benchmarkName[i] \notin {"a", "Z", "9", "_", "$"}

\* C21: a call of runIsolatedBenchmark whose benchmark name does not match
\* [A-Za-z0-9_$]+ (the empty name included) fails before any side effect: no
\* temporary file is created and no worker or child process is spawned.
C21_InvalidNameNoSideEffect ==
    NameRejected
        => /\ isoPc \in {"start", "threw"}
           /\ tempFile = "none"
           /\ ctx = <<>>
           /\ promise = "none"
           /\ cleanupCalls = 0

\* C21 witness: the call with a rejected name has thrown
C21_Witness ==
    /\ NameRejected
    /\ isoPc = "threw"
    /\ isoOpts.processCount >= 1

\* C22: with processCount = 1 the merged result of runIsolatedBenchmark is
\* identical, field for field, to the single report received from the one
\* context.
C22_SingleReportUnchanged ==
    (promise = "resolved" /\ isoOpts.processCount = 1)
        => /\ Len(results) = 1
           /\ combinedResult = results[1]

\* C22 witness: resolved with the report of the one context, whose measured
\* function returned a string
C22_Witness ==
    /\ promise = "resolved"
    /\ isoOpts.processCount = 1
    /\ Len(results) = 1
    /\ results[1].result.type = "string"
    /\ combinedResult.duration = Num(1)

\* C27: in one runIsolatedBenchmark call the outcome is decided once and the
\* temporary file is cleaned up exactly once under every interleaving of
\* context events: there is never a second cleanup or a second settlement,
\* and once the promise has settled the collected results do not change.
C27_DecidedAndCleanedOnce ==
    /\ [](cleanupCalls <= 1 /\ Len(settleCalls) <= 1)
    /\ [][(promise \in {"resolved", "rejected"}) => (results' = results)]_vars

-----------------------------------------------------------------------------
(* Further claims on the adaptive calibration controller *)

\* C24: every sample in the final sample set of runAdaptiveBenchmark was
\* measured at the reported finalIterations count; no sample measured at a
\* smaller iteration count survives a rescale into the final set.
C24_FinalSamplesAtFinalIterations ==
    adPc = "done"
        => \A i \in DOMAIN samples :
              samples[i].iterations = adResult.calibration.finalIterations

\* C28: the iteration count findIterationsForTargetDuration returns, and
\* every iteration count runAdaptiveBenchmark uses later, is an integer
\* within [minIterations, maxIterations], for all option values and all
\* measured durations, 0 included.
C28_IterationsWithinRange ==
    adPc \in {"loop", "body", "final", "done", "threw"}
        => /\ iterations \in Int
           /\ initialIterations \in Int
           /\ OrDefault(adOpts.minIterations, DefaultMinIterations) <= initialIterations
           /\ initialIterations <= OrDefault(adOpts.maxIterations, DefaultMaxIterations)
           /\ OrDefault(adOpts.minIterations, DefaultMinIterations) <= iterations
           /\ iterations <= OrDefault(adOpts.maxIterations, DefaultMaxIterations)

\* C29: the number of rescale steps never exceeds the configured
\* adaptiveSteps, for every adaptiveSteps >= 0, and the adjustmentSteps of
\* the returned calibration is that number.
C29_RescalesWithinAdaptiveSteps ==
    /\ adjustmentSteps <= adOpts.adaptiveSteps
    /\ adPc = "done" => adResult.calibration.adjustmentSteps <= adOpts.adaptiveSteps

\* the rescales still allowed, each worth more than a full sample set, plus
\* the samples still missing from a full set
LoopMeasure ==
    LET steps == OrDefault(adOpts.adaptiveSteps, DefaultAdaptiveSteps)
        minimum == OrDefault(adOpts.minSamples, DefaultMinSamples)
        maximum == OrDefault(adOpts.maxSamples, DefaultMaxSamples)
        full == IF minimum > maximum THEN minimum ELSE maximum
    IN (steps + 1 - currentStep) * (full + 1) + (full - Len(samples))

\* C26: the sampling loop of runAdaptiveBenchmark always terminates after a
\* bounded number of single runs, for every sequence of timer readings and
\* sample durations, also when the clock never advances and the RSD never
\* reaches the target: a measure that is never negative falls with every
\* pass of the loop, so the passes are at most its first value.
C26_LoopTerminates ==
    /\ [](LoopMeasure >= 0)
    /\ [][(adPc = "body") => (LoopMeasure' < LoopMeasure)]_vars

\* C26 witness: the loop has ended on the number of samples alone, after a
\* rescale, with the RSD above the target and the time budget not used up
C26_Witness ==
    /\ adPc = "final"
    /\ adjustmentSteps >= 1
    /\ RsdAboveTarget(relativeStandardDeviation, adOpts)
    /\ Len(samples) >= OrDefault(adOpts.maxSamples, DefaultMaxSamples)
    /\ now - startTime < OrDefault(adOpts.maxTime, DefaultMaxTime)

-----------------------------------------------------------------------------
(* Claims on the stability calibration *)

\* the calibration holds as many samples as the model lets it hold
StabilityCapped == stabPc = "body" /\ Len(stabSamples) >= MaxHeld

\* C25: findIterationsForStatisticalStability always terminates: for every
\* measured function, targetRSD, minSamples and initialIterations <=
\* maxIterations the loop ends (with maxIterations returned when the target
\* RSD is never reached).  Runs the model cuts off at MaxHeld samples are
\* left out.
C25_StabilityTerminates == <>(stabPc = "returned" \/ StabilityCapped)

-----------------------------------------------------------------------------
(* Claims on the monitored run *)

\* C23: with monitorCpu or monitorMemory enabled, runMonitoredBenchmark
\* takes a snapshot every samplingInterval milliseconds while the measured
\* function runs: after a run longer than samplingInterval the snapshots
\* hold periodic snapshots besides the initial and the final one.
C23_PeriodicSnapshots ==
    (/\ monPc = "done"
     /\ monOpts.monitorCpu \/ monOpts.monitorMemory
     /\ monElapsed > OrDefault(monOpts.samplingInterval, DefaultSamplingInterval))
        => \E i \in DOMAIN snapshots : snapshots[i] = "periodic"

-----------------------------------------------------------------------------
(* Further claims on the comparator *)

\* the result the comparison c names as the faster one is no lower in
\* operationsPerSecond than the other
FasterHasHigherThroughput(c) ==
    (c # NoComparison /\ c.benchmarkA # c.benchmarkB)
        => IF c.fasterName = c.benchmarkA
           THEN Ge(c.resultA.operationsPerSecond, c.resultB.operationsPerSecond)
           ELSE Ge(c.resultB.operationsPerSecond, c.resultA.operationsPerSecond)

\* C30: in compareBenchmarks and in compareAdaptiveBenchmarks the benchmark
\* reported as fasterName has the higher throughput: its operationsPerSecond
\* is at least that of the other result, also when the two adaptive runs
\* ended with different iteration counts.
C30_FasterHasHigherThroughput ==
    /\ FasterHasHigherThroughput(cmpForward)
    /\ FasterHasHigherThroughput(cmpBackward)

=============================================================================
